---- MODULE Spec2Model ----
(***************************************************************************)
(* A model of cryptos/keys.py: secret key generation by rejection sampling *)
(* (gen_secret_key and its entropy sources) and the SEC encoding and       *)
(* decoding of public keys (PublicKey.encode, PublicKey.decode).           *)
(*                                                                         *)
(* Byte strings are sequences of integers in 0..255, first byte first.     *)
(* The curve is y^2 = x^3 + 7 over a prime modulus p with p % 4 = 3.  The  *)
(* production modulus has 256 bits, which is out of the range of the model *)
(* checker's integers, so the codec is checked over every small prime      *)
(* modulus of the same residue class; the byte layout (32-byte big-endian  *)
(* coordinates, 33 and 65 byte encodings) is kept at its real size.        *)
(***************************************************************************)
EXTENDS Integers, Sequences, FiniteSets, TLC

VARIABLES
    pc,         \* where the call of gen_secret_key is: "idle", "loop", "test",
                \* "returned" or "raised"
    n,          \* the argument n of the call, an integer of any size
    source,     \* the argument source of the call
    error,      \* the exception the call raised, "None" if none
    key,        \* the local variable key
    drawn,      \* the calls of bytes_fn made by this call, in order: what was
                \* called and the bytes it gave (the first MaxDraws of them)
    more,       \* whether bytes_fn was called more often than drawn records
    mastering_keys, \* the keys returned so far with source 'mastering'
    curve_p,    \* BITCOIN.gen.G.curve.p, the prime modulus of the curve
    pk,         \* the PublicKey object (self): [x, y]
    b,          \* the byte string last produced by encode or handed to decode
    b_src,      \* where b comes from: "none", "compressed", "uncompressed", "external"
    decoded     \* the outcome of the last PublicKey.decode(b)

gen_vars == <<pc, n, source, error, key, drawn, more, mastering_keys>>
codec_vars == <<curve_p, pk, b, b_src, decoded>>
vars == <<gen_vars, codec_vars>>

----------------------------------------------------------------------------
(* Bounds of the model *)

\* the largest curve modulus, and the largest reduced coordinate, considered
MaxP == 19

\* the number of calls of bytes_fn that drawn records
MaxDraws == 2

----------------------------------------------------------------------------
(* Python's integer and bytes primitives *)

Min(i, j) == IF i < j THEN i ELSE j

\* to_bytes with the byte order reversed (little-endian)
RECURSIVE to_bytes_little(_, _)
to_bytes_little(v, length) ==
    IF length = 0 THEN <<>>
    ELSE <<v % 256>> \o to_bytes_little(v \div 256, length - 1)

\* v.to_bytes(length, 'big'): the least significant byte is written last
RECURSIVE to_bytes(_, _)
to_bytes(v, length) ==
    IF length = 0 THEN <<>>
    ELSE Append(to_bytes(v \div 256, length - 1), v % 256)

\* int.from_bytes(s, 'big'); the empty string gives 0
RECURSIVE from_bytes(_)
from_bytes(s) ==
    IF s = <<>> THEN 0
    ELSE from_bytes(SubSeq(s, 1, Len(s) - 1)) * 256 + s[Len(s)]

\* the slice s[lo:hi] with 0 <= lo <= hi: indices past the end are clamped
slice(s, lo, hi) == SubSeq(s, lo + 1, Min(hi, Len(s)))

\* pow(base, e, m) for e >= 0 and m >= 2
RECURSIVE pow(_, _, _)
pow(base, e, m) ==
    IF e = 0 THEN 1 % m
    ELSE ((base % m) * pow(base, e - 1, m)) % m

----------------------------------------------------------------------------
(* The curve parameters (BITCOIN.gen.G.curve) *)

IsPrime(q) == q >= 2 /\ \A d \in 2..(q - 1) : q % d # 0

\* the moduli the codec is checked over: the primes p with p % 4 = 3
Moduli == {q \in 3..MaxP : IsPrime(q) /\ q % 4 = 3}

\* (x, y) satisfies the curve equation y^2 = x^3 + 7 (mod p)
OnCurve(x, y, p) == ((y % p) * (y % p)) % p = (pow(x, 3, p) + 7) % p

\* coordinates a Point is built from: every residue of every modulus, and
\* some values that need more than one byte
Coords == 0..MaxP \cup {256, 4660}

----------------------------------------------------------------------------
(* PublicKey.encode *)

encode(self, compressed) ==
    IF compressed
    THEN LET prefix == IF self.y % 2 = 0 THEN <<2>> ELSE <<3>>
         IN  prefix \o to_bytes(self.x, 32)
    ELSE <<4>> \o to_bytes(self.x, 32) \o to_bytes(self.y, 32)

----------------------------------------------------------------------------
(* PublicKey.decode *)

NoResult == [status |-> "none", cls |-> "None", x |-> 0, y |-> 0]
Raised(e) == [status |-> e, cls |-> "None", x |-> 0, y |-> 0]
Returned(c, x, y) == [status |-> "ok", cls |-> c, x |-> x, y |-> y]

\* the uncompressed branch: both coordinates are read from the buffer
decode_uncompressed(s) ==
    Returned("Point", from_bytes(slice(s, 1, 33)), from_bytes(slice(s, 33, 65)))

\* sqrt_candidate with the exponent (p + 1) / 2
sqrt_candidate_half(y2, p) == pow(y2, (p + 1) \div 2, p)

\* the candidate square root of y2 modulo p
sqrt_candidate(y2, p) == pow(y2, (p + 1) \div 4, p)

\* fix_parity that never flips
fix_parity_never(y, is_even, p) == y

\* flip the candidate if needed to make the evenness agree
fix_parity(y, is_even, p) == IF ((y % 2 = 0) = is_even) THEN y ELSE p - y

\* the compressed branch: y is recovered from x and the evenness flag
decode_compressed(s, p) ==
    LET is_even == s[1] = 2
        x == from_bytes(slice(s, 1, Len(s)))
        y2 == (pow(x, 3, p) + 7) % p
        y == sqrt_candidate(y2, p)
    IN  Returned("PublicKey", x, fix_parity(y, is_even, p))

\* compressed_prefix with the assertion left out
compressed_prefix_any(s) == TRUE

\* the accepted prefixes of the compressed form
compressed_prefix(s) == s[1] \in {2, 3}

decode(s, p) ==
    IF s = <<>> THEN Raised("IndexError")
    ELSE IF s[1] = 4 THEN decode_uncompressed(s)
    ELSE IF ~compressed_prefix(s) THEN Raised("AssertionError")
    ELSE decode_compressed(s, p)

----------------------------------------------------------------------------
(* The codec as a state machine *)

\* leading bytes of the byte strings handed to decode from outside
Prefixes == {0, 2, 3, 4, 5, 255}

CodecInit ==
    /\ curve_p \in Moduli
    /\ pk \in [x : Coords, y : Coords]
    /\ b = <<>>
    /\ b_src = "none"
    /\ decoded = NoResult

\* PublicKey.from_point: a new PublicKey from the coordinates of a point.
\* The variables follow one key through the codec, so a new key is taken
\* up only while the current one has not been encoded.
from_point(x, y) ==
    /\ b_src = "none"
    /\ pk' = [x |-> x, y |-> y]
    /\ b' = <<>>
    /\ b_src' = "none"
    /\ decoded' = NoResult
    /\ UNCHANGED curve_p
    /\ UNCHANGED gen_vars

\* b = pk.encode(compressed), of a key not encoded yet
Encode(compressed) ==
    /\ b_src = "none"
    /\ b' = encode(pk, compressed)
    /\ b_src' = IF compressed THEN "compressed" ELSE "uncompressed"
    /\ decoded' = NoResult
    /\ UNCHANGED <<curve_p, pk>>
    /\ UNCHANGED gen_vars

\* a byte string from outside: an encoding with its leading byte replaced
\* and its length changed by delta bytes.  A compressed prefix is put only
\* on a compressed body: the x read from a longer body has more than 256
\* bits, out of the range of the model's integers.
Receive(prefix, delta) ==
    /\ b_src \in {"compressed", "uncompressed"}
    /\ prefix \in {2, 3} => b_src = "compressed"
    /\ LET body == SubSeq(b, 2, Len(b))
           resized == IF delta < 0 THEN SubSeq(body, 1, Len(body) + delta)
                      ELSE IF delta > 0 THEN body \o <<0>>
                      ELSE body
       IN  b' = <<prefix>> \o resized
    /\ b_src' = "external"
    /\ decoded' = NoResult
    /\ UNCHANGED <<curve_p, pk>>
    /\ UNCHANGED gen_vars

\* the empty byte string from outside
ReceiveEmpty ==
    /\ b_src \in {"compressed", "uncompressed"}
    /\ b' = <<>>
    /\ b_src' = "external"
    /\ decoded' = NoResult
    /\ UNCHANGED <<curve_p, pk>>
    /\ UNCHANGED gen_vars

\* decoded = PublicKey.decode(b)
Decode ==
    /\ b_src # "none"
    /\ decoded = NoResult
    /\ decoded' = decode(b, curve_p)
    /\ UNCHANGED <<curve_p, pk, b, b_src>>
    /\ UNCHANGED gen_vars

CodecNext ==
    \/ \E x \in Coords, y \in Coords : from_point(x, y)
    \/ \E compressed \in BOOLEAN : Encode(compressed)
    \/ \E prefix \in Prefixes, delta \in {-1, 0, 1} : Receive(prefix, delta)
    \/ ReceiveEmpty
    \/ Decode

----------------------------------------------------------------------------
(* Integers of any size *)

\* A key has 256 bits, so the integers of gen_secret_key are held as their
\* big-endian base-256 digits without leading zeros; 0 is the empty sequence.

\* int.from_bytes(s, 'big') as such an integer: leading zero bytes carry no value
RECURSIVE big_from_bytes(_)
big_from_bytes(s) ==
    IF s # <<>> /\ s[1] = 0 THEN big_from_bytes(Tail(s)) ELSE s

\* i < j
big_less(i, j) ==
    \/ Len(i) < Len(j)
    \/ /\ Len(i) = Len(j)
       /\ \E d \in 1..Len(i) :
            /\ i[d] < j[d]
            /\ \A e \in 1..(d - 1) : i[e] = j[e]

\* i <= j
big_leq(i, j) == i = j \/ big_less(i, j)

----------------------------------------------------------------------------
(* The entropy sources *)

HexDigits == <<"0", "1", "2", "3", "4", "5", "6", "7",
               "8", "9", "a", "b", "c", "d", "e", "f">>

hex_value(c) == (CHOOSE d \in 1..16 : HexDigits[d] = c) - 1

\* fromhex with the two digits of each byte exchanged
fromhex_swapped(h) ==
    [d \in 1..(Len(h) \div 2) |-> 16 * hex_value(h[2 * d]) + hex_value(h[2 * d - 1])]

\* bytes.fromhex(h): two hexadecimal digits for each byte, the high one first
fromhex(h) ==
    [d \in 1..(Len(h) \div 2) |-> 16 * hex_value(h[2 * d - 1]) + hex_value(h[2 * d])]

\* the hexadecimal string of mastering_bitcoin_bytes, digit by digit
sk == <<"3", "a", "b", "a", "4", "1", "6", "2", "c", "7", "2", "5", "1", "c", "8", "9",
        "1", "2", "0", "7", "b", "7", "4", "7", "8", "4", "0", "5", "5", "1", "a", "7",
        "1", "9", "3", "9", "b", "0", "d", "e", "0", "8", "1", "f", "8", "5", "c", "4",
        "e", "4", "4", "c", "f", "7", "c", "1", "3", "e", "4", "1", "d", "a", "a", "6">>

mastering_bitcoin_bytes == fromhex(sk)

\* the order of the secp256k1 group, BITCOIN.gen.n, as 32 bytes
OrderBytes ==
    <<255, 255, 255, 255, 255, 255, 255, 255, 255, 255, 255, 255, 255, 255, 255, 254,
      186, 174, 220, 230, 175, 72, 160, 59, 191, 210, 94, 140, 208, 54, 65, 65>>

\* 32-byte strings an entropy source can give, os.urandom(32) and a SHA-256
\* digest alike: all zero, the values 1 and 2, the bytes of the published
\* key, the bytes of the group order, and all ones
Samples ==
    { [d \in 1..32 |-> 0],
      [d \in 1..32 |-> IF d = 32 THEN 1 ELSE 0],
      [d \in 1..32 |-> IF d = 32 THEN 2 ELSE 0],
      mastering_bitcoin_bytes,
      OrderBytes,
      [d \in 1..32 |-> 255] }

random_bytes_os == Samples

random_bytes_user == Samples

\* the keys of the dictionary of gen_secret_key
dict_keys == {"os", "user", "mastering"}

\* the dictionary of gen_secret_key: the function a source names
bytes_fn(src) ==
    CASE src = "os" -> "random_bytes_os"
      [] src = "user" -> "random_bytes_user"
      [] src = "mastering" -> "mastering_bitcoin_bytes"

\* the byte strings a call of the function named fn can return
produced(fn) ==
    CASE fn = "random_bytes_os" -> random_bytes_os
      [] fn = "random_bytes_user" -> random_bytes_user
      [] fn = "mastering_bitcoin_bytes" -> {mastering_bitcoin_bytes}

----------------------------------------------------------------------------
(* gen_secret_key *)

\* recognized with the assertion left out
recognized_any(src) == TRUE

\* the assertion on source
recognized(src) == src \in {"os", "user", "mastering"}

\* valid_key with the upper bound included: 1 <= key <= n
valid_key_inclusive(k, bound) == big_leq(<<1>>, k) /\ big_leq(k, bound)

\* the test of the loop: 1 <= key < n
valid_key(k, bound) == big_leq(<<1>>, k) /\ big_less(k, bound)

\* key_of with the sample cut down to its low 31 bytes (reduced modulo 2^248)
key_of_truncated(s) == big_from_bytes(Tail(s))

\* key = int.from_bytes(bytes_fn(), 'big')
key_of(s) == big_from_bytes(s)

\* source names a caller may pass
Sources == {"os", "user", "mastering", "hardware", ""}

\* upper bounds a caller may pass: 0, 1, 2, the published key, the
\* published key plus one, the group order, and 2^256
UpperBounds ==
    { <<>>, <<1>>, <<2>>,
      key_of(mastering_bitcoin_bytes),
      [d \in 1..32 |-> IF d = 32 THEN mastering_bitcoin_bytes[d] + 1
                       ELSE mastering_bitcoin_bytes[d]],
      OrderBytes,
      [d \in 1..33 |-> IF d = 1 THEN 1 ELSE 0] }

GenInit ==
    /\ pc = "idle"
    /\ n = <<>>
    /\ source = ""
    /\ error = "None"
    /\ key = <<>>
    /\ drawn = <<>>
    /\ more = FALSE
    /\ mastering_keys = {}

\* gen_secret_key(bound, src) is called: the assertion, then the lookup in
\* the dictionary, which raises KeyError for a source that is not a key
Call(bound, src) ==
    /\ pc = "idle"
    /\ n' = bound
    /\ source' = src
    /\ key' = <<>>
    /\ drawn' = <<>>
    /\ more' = FALSE
    /\ error' = IF ~recognized(src) THEN "AssertionError"
                ELSE IF src \notin dict_keys THEN "KeyError"
                ELSE "None"
    /\ pc' = IF recognized(src) /\ src \in dict_keys THEN "loop" ELSE "raised"
    /\ UNCHANGED mastering_keys
    /\ UNCHANGED codec_vars

\* key = int.from_bytes(bytes_fn(), 'big')
Draw(s) ==
    /\ pc = "loop"
    /\ s \in produced(bytes_fn(source))
    /\ key' = key_of(s)
    /\ drawn' = IF Len(drawn) < MaxDraws
                THEN Append(drawn, [fn |-> bytes_fn(source), bytes |-> s])
                ELSE drawn
    /\ more' = (more \/ Len(drawn) >= MaxDraws)
    /\ pc' = "test"
    /\ UNCHANGED <<n, source, error, mastering_keys>>
    /\ UNCHANGED codec_vars

\* if 1 <= key < n: break
Test ==
    /\ pc = "test"
    /\ pc' = IF valid_key(key, n) THEN "returned" ELSE "loop"
    /\ UNCHANGED <<n, source, error, key, drawn, more, mastering_keys>>
    /\ UNCHANGED codec_vars

\* return key: the caller has the key and may call again
Return ==
    /\ pc = "returned"
    /\ mastering_keys' = IF source = "mastering"
                         THEN mastering_keys \cup {key}
                         ELSE mastering_keys
    /\ pc' = "idle"
    /\ UNCHANGED <<n, source, error, key, drawn, more>>
    /\ UNCHANGED codec_vars

GenNext ==
    \/ \E bound \in UpperBounds, src \in Sources : Call(bound, src)
    \/ \E s \in Samples : Draw(s)
    \/ Test
    \/ Return

----------------------------------------------------------------------------
(* Specifications *)

Init == GenInit /\ CodecInit

Next == GenNext \/ CodecNext

\* key generation and the codec side by side; they share no variable
Spec == Init /\ [][Next]_vars

\* the codec alone, with no call of gen_secret_key
CodecSpec == Init /\ [][CodecNext]_vars

\* gen_secret_key alone, with one key at rest in the codec
GenOnlyInit ==
    /\ GenInit
    /\ CodecInit
    /\ curve_p = 3
    /\ pk = [x |-> 0, y |-> 0]

GenSpec == GenOnlyInit /\ [][GenNext]_vars

\* the interpreter runs the loop on: a statement that can run does run
FairGenSpec == GenOnlyInit /\ [][GenNext]_vars /\ WF_vars(\E s \in Samples : Draw(s)) /\ WF_vars(Test)

----------------------------------------------------------------------------
(* Properties of the codec, checked under CodecSpec *)

\* pk is a point of the curve with reduced coordinates
ReducedCurvePoint ==
    /\ pk.x < curve_p
    /\ pk.y < curve_p
    /\ OnCurve(pk.x, pk.y, curve_p)

\* b is pk.encode(...) and decode(b) has run
RoundTripDone == b_src \in {"compressed", "uncompressed"} /\ decoded # NoResult

\* the base-256 digit of v with weight 256^k
RECURSIVE Digit(_, _)
Digit(v, k) == IF k = 0 THEN v % 256 ELSE Digit(v \div 256, k - 1)

\* s is the 32-byte big-endian form of v: the byte at place d weighs 256^(32 - d)
BigEndian32(s, v) ==
    /\ Len(s) = 32
    /\ \A d \in 1..32 : s[d] = Digit(v, 32 - d)

\* y2 is a square modulo p (zero included): x is the abscissa of a curve point
IsSquare(y2, p) == \E r \in 0..(p - 1) : (r * r) % p = y2

\* decode(b) has run on a byte string with a compressed prefix
CompressedDecoded ==
    /\ b_src # "none"
    /\ decoded # NoResult
    /\ b # <<>>
    /\ b[1] \in {2, 3}

\* C1: a point of the curve with reduced coordinates, encoded compressed or
\* uncompressed and decoded again, comes back with the same x and the same y
\* (so both encodings of it decode to the same point).
C1_RoundTrip ==
    (RoundTripDone /\ ReducedCurvePoint) =>
        /\ decoded.status = "ok"
        /\ decoded.x = pk.x
        /\ decoded.y = pk.y

\* a compressed round trip of a curve point in which decode had to flip the
\* candidate root
C1_Witness ==
    /\ RoundTripDone
    /\ ReducedCurvePoint
    /\ b_src = "compressed"
    /\ pk.y % 2 = 1
    /\ pk.y # pow((pow(pk.x, 3, curve_p) + 7) % curve_p, (curve_p + 1) \div 4, curve_p)
    /\ decoded.y = pk.y

\* C3: decode of a byte string whose leading byte is none of 2, 3, 4 fails
\* with the assertion error of decode and returns no point.
C3_BadPrefixRejected ==
    (b_src # "none" /\ decoded # NoResult /\ b # <<>> /\ b[1] \notin {2, 3, 4}) =>
        /\ decoded.status = "AssertionError"
        /\ decoded.cls = "None"

\* a 33-byte buffer starting with 0x05 has been rejected
C3_Witness ==
    /\ b_src = "external"
    /\ Len(b) = 33
    /\ b[1] = 5
    /\ decoded.status = "AssertionError"

\* C4: decode fails whenever the length does not match the prefix: prefix 4
\* with a length other than 65, prefix 2 or 3 with a length other than 33.
C4_WrongLengthRejected ==
    (/\ b_src # "none"
     /\ decoded # NoResult
     /\ b # <<>>
     /\ \/ b[1] = 4 /\ Len(b) # 65
        \/ b[1] \in {2, 3} /\ Len(b) # 33) =>
        decoded.status \notin {"ok", "none"}

\* C6: the compressed encoding is 33 bytes, 2 for an even y and 3 for an odd
\* y, then x as 32 bytes big-endian; the uncompressed one is 65 bytes, 4, then
\* x and y as 32 bytes big-endian each; and the mirror image (x, p - y) of a
\* point with an even nonzero y encodes with prefix 3.
C6_EncodeLayout ==
    /\ b_src = "compressed" =>
        /\ Len(b) = 33
        /\ b[1] = (IF pk.y % 2 = 0 THEN 2 ELSE 3)
        /\ BigEndian32(SubSeq(b, 2, 33), pk.x)
        /\ (/\ ReducedCurvePoint
            /\ pk.y # 0
            /\ (curve_p - pk.y) % 2 = 0) => b[1] = 3
    /\ b_src = "uncompressed" =>
        /\ Len(b) = 65
        /\ b[1] = 4
        /\ BigEndian32(SubSeq(b, 2, 33), pk.x)
        /\ BigEndian32(SubSeq(b, 34, 65), pk.y)

\* the compressed encoding of the mirror image of an even point, with an x
\* of more than one byte
C6_Witness ==
    /\ b_src = "compressed"
    /\ pk.y # 0
    /\ pk.y < curve_p
    /\ (curve_p - pk.y) % 2 = 0
    /\ OnCurve(pk.x, pk.y, curve_p)
    /\ pk.x >= 256
    /\ b[1] = 3

\* C8: for an x whose x^3 + 7 is a square modulo p, decoding prefix 2 or 3
\* followed by x gives a y with y^2 = x^3 + 7 (mod p), of the parity the
\* prefix demands, and y is the candidate y0 = (x^3 + 7)^((p + 1) / 4) mod p
\* or p - y0.
C8_DecompressionCorrect ==
    LET p == curve_p
        y2 == (pow(decoded.x, 3, p) + 7) % p
        y0 == pow(y2, (p + 1) \div 4, p)
    IN  (CompressedDecoded /\ decoded.status = "ok" /\ IsSquare(y2, p)) =>
            /\ (decoded.y * decoded.y) % p = y2
            /\ (decoded.y % 2 = 0) = (b[1] = 2)
            /\ decoded.y \in {y0, p - y0}

\* an odd root of a nonzero square was demanded and the candidate was even
C8_Witness ==
    LET p == curve_p
        y2 == (pow(decoded.x, 3, p) + 7) % p
        y0 == pow(y2, (p + 1) \div 4, p)
    IN  /\ CompressedDecoded
        /\ decoded.status = "ok"
        /\ IsSquare(y2, p)
        /\ y2 # 0
        /\ b[1] = 3
        /\ decoded.y = p - y0
        /\ p > 3

----------------------------------------------------------------------------
(* Properties of gen_secret_key, checked under GenSpec and FairGenSpec *)

\* the integer k is the number the bytes s spell in big-endian: s is k
\* behind some zero bytes, and k has no leading zero
Spells(s, k) ==
    /\ Len(k) <= Len(s)
    /\ \A d \in 1..(Len(s) - Len(k)) : s[d] = 0
    /\ SubSeq(s, Len(s) - Len(k) + 1, Len(s)) = k
    /\ k # <<>> => k[1] # 0

\* the sample s lies in [1, bound)
SampleInRange(s, bound) ==
    \E d \in 1..Len(s) :
        /\ s[d] # 0
        /\ \A e \in 1..(d - 1) : s[e] = 0
        /\ big_less(SubSeq(s, d, Len(s)), bound)

\* 0x3aba4162c7251c891207b747840551a71939b0de081f85c4e44cf7c13e41daa6
PublishedKey ==
    <<58, 186, 65, 98, 199, 37, 28, 137, 18, 7, 183, 71, 132, 5, 81, 167,
      25, 57, 176, 222, 8, 31, 133, 196, 228, 76, 247, 193, 62, 65, 218, 166>>

\* C2: whenever gen_secret_key returns, 1 <= key < n, whatever bytes the
\* source produced.
C2_KeyInRange ==
    pc = "returned" =>
        /\ key # <<>>
        /\ key[1] # 0
        /\ big_less(key, n)

\* a key below the group order returned from os entropy after a rejection
C2_Witness ==
    /\ pc = "returned"
    /\ source = "os"
    /\ n = OrderBytes
    /\ Len(drawn) >= 2
    /\ drawn[1].bytes = [d \in 1..32 |-> 0]

\* C5: a call with a source name that is not recognized fails with the
\* assertion error, has called no entropy source and never returns a key.
C5_UnknownSourceRejected ==
    (pc # "idle" /\ source \notin {"os", "user", "mastering"}) =>
        /\ pc = "raised"
        /\ error = "AssertionError"
        /\ drawn = <<>>
        /\ ~more

\* the call gen_secret_key(n, 'hardware') has failed
C5_Witness ==
    /\ pc = "raised"
    /\ source = "hardware"
    /\ n = OrderBytes

\* C9: every iteration draws one sample; the samples before the last are
\* outside [1, n); the key is the number the last sample spells, never a cut
\* or reduced form of it; the call returns exactly when that sample lies in
\* [1, n), so it returns the first sample in range and has drawn one sample
\* more than it rejected.
C9_FirstValidSample ==
    LET c == Len(drawn)
        rejected == {d \in 1..c : ~SampleInRange(drawn[d].bytes, n)}
    IN  ~more =>
            /\ \A d \in 1..(c - 1) : d \in rejected
            /\ pc \in {"test", "returned"} => (c >= 1 /\ Spells(drawn[c].bytes, key))
            /\ pc = "loop" => Cardinality(rejected) = c
            /\ pc = "returned" =>
                /\ SampleInRange(drawn[c].bytes, n)
                /\ c = Cardinality(rejected) + 1
            /\ \A d \in 1..c : drawn[d].fn = bytes_fn(source)

\* a sample at or above n was rejected, and the next one, the first in
\* range, was returned
C9_Witness ==
    /\ pc = "returned"
    /\ ~more
    /\ Len(drawn) = 2
    /\ ~big_less(key_of(drawn[1].bytes), n)
    /\ ~SampleInRange(drawn[1].bytes, n)
    /\ n = OrderBytes
    /\ Spells(drawn[2].bytes, key)

\* C7 as stated: with source 'mastering' every call returns, and returns
\* the published key.
C7_MasteringAlwaysReturns ==
    (source = "mastering" /\ pc \in {"loop", "test"}) ~>
        (pc = "returned" /\ key = PublishedKey)

\* C7 as amended: with source 'mastering' a call returns if and only if n
\* is above the published key; it then returns after one draw, the key is
\* the published key and lies in [1, n), and all such calls return the same
\* value.
C7_MasteringReturnsIffAbove ==
    /\ [](source = "mastering" /\ pc = "returned" =>
            /\ key = PublishedKey
            /\ big_less(PublishedKey, n)
            /\ Len(drawn) = 1
            /\ ~more)
    /\ [](mastering_keys \subseteq {PublishedKey})
    /\ [](source = "mastering" /\ ~big_less(PublishedKey, n) => pc # "returned")
    /\ (source = "mastering" /\ pc \in {"loop", "test"} /\ big_less(PublishedKey, n)) ~>
            (pc = "returned" /\ key = PublishedKey)

\* a second call with source 'mastering' has returned the published key
C7_Witness ==
    /\ pc = "returned"
    /\ source = "mastering"
    /\ n = OrderBytes
    /\ key = PublishedKey
    /\ mastering_keys = {PublishedKey}

====
